---- MODULE Spec2Model ----
(***************************************************************************)
(* Model of airflow/providers/sftp/operators/sftp.py: SFTPOperator.        *)
(*                                                                         *)
(* A Python str is a finite sequence of tokens.  Operation strings are     *)
(* sequences of single letters; paths are sequences whose "/" separators   *)
(* are tokens of their own, so that str.lower() and os.path.dirname() are  *)
(* computed token by token as the library computes them.  Python's None is *)
(* the distinguished value None; it is not a member of any input set.      *)
(***************************************************************************)
EXTENDS Naturals, Sequences, FiniteSets

VARIABLES
    phase,                    \* "new" | "ready" | "ctor_failed"
    arg_sftp_hook,            \* the sftp_hook argument __init__ was called with
    ssh_hook,                 \* self.ssh_hook
    sftp_hook,                \* self.sftp_hook
    ssh_conn_id,              \* self.ssh_conn_id
    remote_host,              \* self.remote_host
    local_filepath,           \* self.local_filepath
    remote_filepath,          \* self.remote_filepath
    operation,                \* self.operation
    confirm,                  \* self.confirm
    create_intermediate_dirs, \* self.create_intermediate_dirs
    ctor_error,               \* exception type raised by __init__, or None
    deprecation_warnings,     \* number of DeprecationWarnings emitted
    hooks_created,            \* number of SFTPHook objects constructed so far
    localDirs,                \* directories present on the local filesystem
    executions,               \* number of execute() calls finished
    entry_hook,               \* self.sftp_hook on entry of the last execute()
    built,                    \* SFTPHooks constructed by the last execute()
    calls,                    \* side effects of the last execute(), in order
    log,                      \* self.log.info messages of the last call
    outcome,                  \* "none" | "returned" | "raised"
    result,                   \* value returned by the last execute()
    error                     \* message of the exception raised by execute()

vars == <<phase, arg_sftp_hook, ssh_hook, sftp_hook, ssh_conn_id, remote_host,
          local_filepath, remote_filepath, operation, confirm,
          create_intermediate_dirs, ctor_error, deprecation_warnings,
          hooks_created, localDirs, executions, entry_hook, built, calls, log,
          outcome, result, error>>

\* ---------------------------------------------------------------- bounds
MaxExecutions == 2

\* ------------------------------------------------------- Python values
None == <<"<None>">>

\* bool(x) of a str or None
Truthy(s) == s # None /\ s # <<>>

\* class SFTPOperation
PUT == <<"p", "u", "t">>
GET == <<"g", "e", "t">>

\* str.lower(), letter by letter
LowerChar(c) ==
    CASE c = "G" -> "g"
      [] c = "E" -> "e"
      [] c = "T" -> "t"
      [] c = "P" -> "p"
      [] c = "U" -> "u"
      [] c = "S" -> "s"
      [] OTHER   -> c

\* Mutant of Lower: the string is compared as written
Lower_AsWritten(s) == s

Lower(s) == [i \in DOMAIN s |-> LowerChar(s[i])]

\* ------------------------------------------------------------ os.path
LastSep(p) ==
    LET seps == {i \in DOMAIN p : p[i] = "/"}
    IN  IF seps = {} THEN 0 ELSE CHOOSE i \in seps : \A j \in seps : j <= i

AllSeps(h) == \A i \in DOMAIN h : h[i] = "/"

RECURSIVE RStripSep(_)
RStripSep(h) ==
    IF h # <<>> /\ h[Len(h)] = "/" THEN RStripSep(SubSeq(h, 1, Len(h) - 1)) ELSE h

\* os.path.dirname(p): everything up to the last separator, trailing
\* separators stripped unless the head consists of separators only
dirname(p) ==
    LET head == SubSeq(p, 1, LastSep(p))
    IN  IF head # <<>> /\ ~AllSeps(head) THEN RStripSep(head) ELSE head

\* a directory and all its ancestors, up to the root or the working directory
RECURSIVE Ancestors(_)
Ancestors(d) == IF dirname(d) = d THEN {d} ELSE {d} \cup Ancestors(dirname(d))

\* pathlib.Path(d).mkdir(parents=..., exist_ok=...); envOk is whether the
\* operating system lets a missing directory be created
PathMkdir(dirs, d, parents, exist_ok, envOk) ==
    IF d \in dirs
    THEN [ok |-> exist_ok, dirs |-> dirs]
    ELSE IF dirname(d) \notin dirs /\ ~parents
         THEN [ok |-> FALSE, dirs |-> dirs]
         ELSE IF envOk
              THEN [ok |-> TRUE, dirs |-> dirs \cup (IF parents THEN Ancestors(d) ELSE {d})]
              ELSE [ok |-> FALSE, dirs |-> dirs]

\* ---------------------------------------------------------------- hooks
\* The absent hook (self.sftp_hook is None)
NoHook == [kind |-> "NoneType", id |-> 0, source |-> "none", conn |-> None,
           wraps |-> None, remote_host |-> None]

\* An SFTPHook instance handed to the operator by its caller
GivenHook == [kind |-> "SFTPHook", id |-> 0, source |-> "given", conn |-> None,
              wraps |-> None, remote_host |-> <<"hook.host">>]

\* An object handed over as sftp_hook that is not an SFTPHook
OtherObject == [kind |-> "object", id |-> 0, source |-> "given", conn |-> None,
                wraps |-> None, remote_host |-> None]

\* SSHHook instance / an object that is not an SSHHook
ValidSSHHook == <<"SSHHook">>
InvalidSSHHook == <<"object">>

\* SFTPHook(ssh_conn_id=..., ssh_hook=...): the id-th hook constructed; its
\* host is the one the connection or the wrapped SSHHook is configured with
SFTPHook(conn_id, wrapped, id) ==
    [kind |-> "SFTPHook", id |-> id,
     source |-> IF wrapped # None THEN "ssh_hook" ELSE "ssh_conn_id",
     conn |-> conn_id, wraps |-> wrapped,
     remote_host |-> IF wrapped # None THEN <<"ssh.host">> ELSE <<"conn.host">>]

\* isinstance(h, SFTPHook), isinstance(h, SSHHook), bool(h)
IsSFTPHook(h) == h.kind = "SFTPHook"
IsSSHHook(h) == h = ValidSSHHook
HookTruthy(h) == h # NoHook

\* ------------------------------------------------------------ inputs
CaseVariants(a, b, c) == {<<x, y, z>> : x \in a, y \in b, z \in c}
GetVariants == CaseVariants({"g", "G"}, {"e", "E"}, {"t", "T"})
PutVariants == CaseVariants({"p", "P"}, {"u", "U"}, {"t", "T"})
OtherOperations == {<<>>, <<"g", "e">>, <<"g", "e", "t", "s">>, <<"g", "e", "t", " ">>,
                    <<"t", "u", "p">>, <<"G", "E", "T", "S">>}
Operations == GetVariants \cup PutVariants \cup OtherOperations

SftpHookArgs == {NoHook, GivenHook, OtherObject}
SshHookArgs == {None, ValidSSHHook, InvalidSSHHook}
ConnIds == {None, <<>>, <<"sftp_default">>}
RemoteHosts == {None, <<>>, <<"override.host">>}
LocalPaths == {<<"/", "tmp", "/", "d", "/", "f.txt">>, <<"f.txt">>}
RemotePaths == {<<"/", "up", "/", "r.txt">>, <<"r.txt">>}
ErrorTexts == {<<"No such file">>, <<"Permission denied">>}

\* ------------------------------------------------------------- Init
Init ==
    /\ phase = "new"
    /\ arg_sftp_hook = NoHook
    /\ ssh_hook = None
    /\ sftp_hook = NoHook
    /\ ssh_conn_id = None
    /\ remote_host = None
    /\ local_filepath = None
    /\ remote_filepath = None
    /\ operation = None
    /\ confirm = TRUE
    /\ create_intermediate_dirs = FALSE
    /\ ctor_error = None
    /\ deprecation_warnings = 0
    /\ hooks_created = 0
    /\ localDirs = {<<"/">>, <<>>}
    /\ executions = 0
    /\ entry_hook = NoHook
    /\ built = 0
    /\ calls = <<>>
    /\ log = <<>>
    /\ outcome = "none"
    /\ result = None
    /\ error = None

\* --------------------------------------------------- SFTPOperator.__init__
\* The operation check of __init__
UnsupportedOperation(op) == ~(Lower(op) = GET \/ Lower(op) = PUT)

\* The check that only one of ssh_hook and sftp_hook is given
BothHooks(ssh, sftp) == ssh # None /\ sftp # NoHook

\* Mutant of DeriveHook: the legacy hook is wrapped without looking at the
\* hook already derived
DeriveHook_AlwaysWrap(ssh, sftp, conn_id) ==
    LET s0 == [hook |-> sftp, made |-> 0, warned |-> 0, log |-> <<>>]
        s1 == IF ~IsSSHHook(ssh)
              THEN [s0 EXCEPT !.hook = SFTPHook(conn_id, None, hooks_created + 1),
                              !.made = 1]
              ELSE s0
        s2 == [s1 EXCEPT !.hook = SFTPHook(None, ssh, hooks_created + s1.made + 1),
                         !.made = @ + 1,
                         !.warned = 1]
    IN  IF ssh # None THEN s2 ELSE s0

\* The hook derivation of __init__ when ssh_hook is given: the resulting
\* self.sftp_hook, the number of hooks constructed, the warnings emitted and
\* the log lines written
DeriveHook(ssh, sftp, conn_id) ==
    LET s0 == [hook |-> sftp, made |-> 0, warned |-> 0, log |-> <<>>]
        s1 == IF ~IsSSHHook(ssh)
              THEN [s0 EXCEPT !.hook = SFTPHook(conn_id, None, hooks_created + 1),
                              !.made = 1,
                              !.log = <<"ssh_hook is invalid. Trying ssh_conn_id to create SFTPHook.">>]
              ELSE s0
        s2 == IF s1.hook = NoHook
              THEN [s1 EXCEPT !.hook = SFTPHook(None, ssh, hooks_created + s1.made + 1),
                              !.made = @ + 1,
                              !.warned = 1]
              ELSE s1
    IN  IF ssh # None THEN s2 ELSE s0

Construct ==
    /\ phase = "new"
    /\ \E ssh \in SshHookArgs, sftp \in SftpHookArgs, conn_id \in ConnIds,
          host \in RemoteHosts, lp \in LocalPaths, rp \in RemotePaths,
          op \in Operations, cf \in BOOLEAN, cid \in BOOLEAN :
         LET d == DeriveHook(ssh, sftp, conn_id)
             failed == UnsupportedOperation(op) \/ BothHooks(ssh, sftp)
         IN  /\ arg_sftp_hook' = sftp
             /\ ssh_hook' = ssh
             /\ ssh_conn_id' = conn_id
             /\ remote_host' = host
             /\ local_filepath' = lp
             /\ remote_filepath' = rp
             /\ operation' = op
             /\ confirm' = cf
             /\ create_intermediate_dirs' = cid
             /\ ctor_error' = IF UnsupportedOperation(op) THEN <<"TypeError">>
                              ELSE IF BothHooks(ssh, sftp) THEN <<"AirflowException">>
                              ELSE None
             /\ phase' = IF failed THEN "ctor_failed" ELSE "ready"
             /\ sftp_hook' = IF failed THEN sftp ELSE d.hook
             /\ hooks_created' = IF failed THEN hooks_created ELSE hooks_created + d.made
             /\ deprecation_warnings' = IF failed THEN 0 ELSE d.warned
             /\ log' = IF failed THEN <<>> ELSE d.log
    /\ UNCHANGED <<localDirs, executions, entry_hook, built, calls, outcome, result, error>>

\* ---------------------------------------------------- SFTPOperator.execute
\* One side effect of execute(): a call on the hook, an assignment to the
\* hook's remote_host, or a creation of local directories.  host is the
\* remote_host of self.sftp_hook at the moment of the call, err the text of
\* the exception the call raised (None when it returned).
Event(fn, args, kw, h, ok, text) ==
    [fn |-> fn, args |-> args, confirm |-> kw, hook |-> h.id, host |-> h.remote_host,
     ok |-> ok, err |-> IF ok THEN None ELSE text]

\* The local state of a running execute(): self.sftp_hook, file_msg, the side
\* effects so far, the log, and the exception that left the try block, if any
EntryFrame ==
    [hook |-> sftp_hook, file_msg |-> None, calls |-> <<>>, log |-> <<>>,
     raised |-> FALSE, exc |-> None, dirs |-> localDirs, built |-> 0]

Raise(f, text) == [f EXCEPT !.raised = TRUE, !.exc = text]

Info(f, msg) == [f EXCEPT !.log = Append(@, msg)]

\* Mutant of ResolveHook: a hook that is not an SFTPHook is kept
ResolveHook_KeepAny(f) ==
    LET f1 == IF Truthy(ssh_conn_id)
              THEN IF HookTruthy(f.hook)
                   THEN f
                   ELSE [f EXCEPT !.hook = SFTPHook(ssh_conn_id, None, hooks_created + f.built + 1),
                                  !.built = @ + 1]
              ELSE f
    IN  IF ~HookTruthy(f1.hook)
        THEN Raise(f1, <<"Cannot operate without sftp_hook or ssh_conn_id.">>)
        ELSE f1

\* Mutant of ResolveHook: the hook is built from ssh_conn_id on every call
ResolveHook_AlwaysBuild(f) ==
    LET f1 == IF Truthy(ssh_conn_id)
              THEN [f EXCEPT !.hook = SFTPHook(ssh_conn_id, None, hooks_created + f.built + 1),
                             !.built = @ + 1]
              ELSE f
    IN  IF ~HookTruthy(f1.hook)
        THEN Raise(f1, <<"Cannot operate without sftp_hook or ssh_conn_id.">>)
        ELSE f1

\* Mutant of ResolveHook: the check for a missing hook is left out
ResolveHook_NoCheck(f) ==
    IF Truthy(ssh_conn_id)
    THEN IF HookTruthy(f.hook) /\ IsSFTPHook(f.hook)
         THEN f
         ELSE [f EXCEPT !.hook = SFTPHook(ssh_conn_id, None, hooks_created + f.built + 1),
                        !.built = @ + 1]
    ELSE f

\* if self.ssh_conn_id: ... ; if not self.sftp_hook: raise
ResolveHook(f) ==
    LET f1 == IF Truthy(ssh_conn_id)
              THEN IF HookTruthy(f.hook) /\ IsSFTPHook(f.hook)
                   THEN Info(f, "ssh_conn_id is ignored when sftp_hook/ssh_hook is provided.")
                   ELSE [Info(f, "sftp_hook/ssh_hook not provided or invalid. Trying ssh_conn_id to create SFTPHook.")
                           EXCEPT !.hook = SFTPHook(ssh_conn_id, None, hooks_created + f.built + 1),
                                  !.built = @ + 1]
              ELSE f
    IN  IF ~HookTruthy(f1.hook)
        THEN Raise(f1, <<"Cannot operate without sftp_hook or ssh_conn_id.">>)
        ELSE f1

\* if self.remote_host is not None: self.sftp_hook.remote_host = self.remote_host
\* attrOk: whether an object that is not an SFTPHook accepts the assignment
ApplyRemoteHost(f, attrOk) ==
    IF f.raised \/ remote_host = None THEN f
    ELSE LET f1 == Info(f, "remote_host is provided explicitly.")
         IN  IF IsSFTPHook(f1.hook) \/ attrOk
             THEN LET h == [f1.hook EXCEPT !.remote_host = remote_host]
                  IN  [f1 EXCEPT !.hook = h,
                                 !.calls = Append(@, Event("set_remote_host", <<remote_host>>, "-", h, TRUE, None))]
             ELSE Raise(f1, <<"object has no attribute 'remote_host'">>)

\* Path(local_folder).mkdir(parents=True, exist_ok=True)
MakeLocalDirs(f, folder, envOk, text) ==
    IF f.raised THEN f
    ELSE LET r == PathMkdir(f.dirs, folder, TRUE, TRUE, envOk)
             f1 == [f EXCEPT !.dirs = r.dirs,
                             !.calls = Append(@, Event("mkdir", <<folder>>, "-", f.hook, r.ok, text))]
         IN  IF r.ok THEN f1 ELSE Raise(f1, text)

\* A method call on self.sftp_hook; an object that is not an SFTPHook has no
\* such method, and the attribute lookup raises before anything is called
CallHook(f, fn, args, kw, ok, text) ==
    IF f.raised THEN f
    ELSE IF ~IsSFTPHook(f.hook)
         THEN Raise(f, <<"object has no attribute">>)
         ELSE LET f1 == [f EXCEPT !.calls = Append(@, Event(fn, args, kw, f.hook, ok, text))]
              IN  IF ok THEN f1 ELSE Raise(f1, text)

\* file_msg = f"from {src} to {dst}"; self.log.info("Starting to transfer ...")
SetFileMsg(f, src, dst) ==
    IF f.raised THEN f
    ELSE Info([f EXCEPT !.file_msg = <<"from ">> \o src \o <<" to ">> \o dst],
              "Starting to transfer")

BoolStr(b) == IF b THEN "True" ELSE "False"

\* Mutant of GetBranch: the file is retrieved before the directories are made
GetBranch_MkdirLast(f, dirOk, xferOk, text) ==
    LET local_folder == dirname(local_filepath)
        f1 == SetFileMsg(f, remote_filepath, local_filepath)
        f2 == CallHook(f1, "retrieve_file", <<remote_filepath, local_filepath>>, "-", xferOk, text)
    IN  IF create_intermediate_dirs
        THEN MakeLocalDirs(f2, local_folder, dirOk, text)
        ELSE f2

\* the branch of execute() for operation 'get'
GetBranch(f, dirOk, xferOk, text) ==
    LET local_folder == dirname(local_filepath)
        f1 == IF create_intermediate_dirs
              THEN MakeLocalDirs(f, local_folder, dirOk, text)
              ELSE f
        f2 == SetFileMsg(f1, remote_filepath, local_filepath)
    IN  CallHook(f2, "retrieve_file", <<remote_filepath, local_filepath>>, "-", xferOk, text)

\* Mutant of PutBranch: confirm is not passed on, store_file uses its default
PutBranch_DefaultConfirm(f, dirOk, xferOk, text) ==
    LET remote_folder == dirname(remote_filepath)
        f1 == IF create_intermediate_dirs
              THEN CallHook(f, "create_directory", <<remote_folder>>, "-", dirOk, text)
              ELSE f
        f2 == SetFileMsg(f1, local_filepath, remote_filepath)
    IN  CallHook(f2, "store_file", <<remote_filepath, local_filepath>>, BoolStr(TRUE), xferOk, text)

\* the branch of execute() for every other operation, that is 'put'
PutBranch(f, dirOk, xferOk, text) ==
    LET remote_folder == dirname(remote_filepath)
        f1 == IF create_intermediate_dirs
              THEN CallHook(f, "create_directory", <<remote_folder>>, "-", dirOk, text)
              ELSE f
        f2 == SetFileMsg(f1, local_filepath, remote_filepath)
    IN  CallHook(f2, "store_file", <<remote_filepath, local_filepath>>, BoolStr(confirm), xferOk, text)

\* if self.operation.lower() == SFTPOperation.GET: ... else: ...
Dispatch(f, dirOk, xferOk, text) ==
    IF f.raised THEN f
    ELSE IF Lower(operation) = GET
         THEN GetBranch(f, dirOk, xferOk, text)
         ELSE PutBranch(f, dirOk, xferOk, text)

\* Mutant of TryBlock: the host is overridden after the transfer
TryBlock_HostLast(attrOk, dirOk, xferOk, text) ==
    ApplyRemoteHost(Dispatch(ResolveHook(EntryFrame), dirOk, xferOk, text), attrOk)

\* the body of the try block
TryBlock(attrOk, dirOk, xferOk, text) ==
    Dispatch(ApplyRemoteHost(ResolveHook(EntryFrame), attrOk), dirOk, xferOk, text)

\* str(x) of a str or None inside an f-string
Str(x) == IF x = None THEN <<"None">> ELSE x

\* Mutant of TransferError: the cause is left out of the message
TransferError_NoCause(file_msg, e) ==
    <<"Error while transferring ">> \o Str(file_msg)

\* AirflowException(f"Error while transferring {file_msg}, error: {str(e)}")
TransferError(file_msg, e) ==
    <<"Error while transferring ">> \o Str(file_msg) \o <<", error: ">> \o e

\* Mutant of ReturnValue: the destination of the transfer is returned
ReturnValue_Destination(f) ==
    IF f.raised THEN None
    ELSE IF Lower(operation) = GET THEN local_filepath ELSE remote_filepath

\* return self.local_filepath, reached only when the try block raised nothing
ReturnValue(f) == IF f.raised THEN None ELSE local_filepath

Execute ==
    /\ phase = "ready"
    /\ executions < MaxExecutions
    /\ \E attrOk \in BOOLEAN, dirOk \in BOOLEAN, xferOk \in BOOLEAN, text \in ErrorTexts :
         \E f \in {TryBlock(attrOk, dirOk, xferOk, text)} :
             /\ entry_hook' = sftp_hook
             /\ sftp_hook' = f.hook
             /\ hooks_created' = hooks_created + f.built
             /\ built' = f.built
             /\ localDirs' = f.dirs
             /\ calls' = f.calls
             /\ log' = f.log
             /\ outcome' = IF f.raised THEN "raised" ELSE "returned"
             /\ error' = IF f.raised THEN TransferError(f.file_msg, f.exc) ELSE None
             /\ result' = ReturnValue(f)
    /\ executions' = executions + 1
    /\ UNCHANGED <<phase, arg_sftp_hook, ssh_hook, ssh_conn_id, remote_host,
                   local_filepath, remote_filepath, operation, confirm,
                   create_intermediate_dirs, ctor_error, deprecation_warnings>>

Next == Construct \/ Execute

Spec == Init /\ [][Next]_vars

\* ================================================================ properties
\* an execute() of a constructed task has finished
Executed == phase = "ready" /\ executions >= 1

TransferFns == {"retrieve_file", "store_file"}
DirFns == {"mkdir", "create_directory"}

\* positions in the side effects of the last execute() of calls to one of fns
CallsTo(fns) == {i \in DOMAIN calls : calls[i].fn \in fns}

\* msg contains part as a contiguous piece
Contains(msg, part) ==
    \E i \in 0..(Len(msg) - Len(part)) : SubSeq(msg, i + 1, i + Len(part)) = part

\* the direction of a transfer as the message names it
Direction(src, dst) == <<"from ">> \o src \o <<" to ">> \o dst

\* the parent directories of the paths the tasks are built with, written out
ParentOf(p) ==
    CASE p = <<"/", "tmp", "/", "d", "/", "f.txt">> -> <<"/", "tmp", "/", "d">>
      [] p = <<"/", "up", "/", "r.txt">> -> <<"/", "up">>
      [] p = <<"f.txt">> -> <<>>
      [] p = <<"r.txt">> -> <<>>
      [] p = <<"/", "tmp", "/", "d">> -> <<"/", "tmp">>
      [] p = <<"/", "up">> -> <<"/">>
      [] p = <<>> -> <<>>

IsGet == operation \in GetVariants
IsPut == operation \in PutVariants

\* C1: construction fails when the operation is no case variant of 'get' or
\* 'put', and fails when both sftp_hook and ssh_hook are given; every case
\* variant of 'get' or 'put' with at most one of the hooks is accepted, and
\* execute() then transfers in the direction the variant names.
C1_ConstructionValidation ==
    phase # "new" =>
        /\ (~(IsGet \/ IsPut) => phase = "ctor_failed" /\ ctor_error = <<"TypeError">>)
        /\ (ssh_hook # None /\ arg_sftp_hook # NoHook => phase = "ctor_failed")
        /\ ((IsGet \/ IsPut) /\ ~(ssh_hook # None /\ arg_sftp_hook # NoHook)
              => phase = "ready" /\ ctor_error = None)
        /\ (IsGet => CallsTo({"store_file", "create_directory"}) = {})
        /\ (IsPut => CallsTo({"retrieve_file", "mkdir"}) = {})

C1_Witness ==
    /\ Executed
    /\ operation = <<"G", "e", "T">>
    /\ arg_sftp_hook = GivenHook
    /\ CallsTo({"retrieve_file"}) # {}

\* C2: when retrieve_file or store_file raises, execute() raises one error whose
\* message contains the direction of the transfer and the text of the failure;
\* nothing is returned and the transfer is called once only.
C2_TransferFailureTranslated ==
    Executed =>
        \A i \in CallsTo(TransferFns) :
            ~calls[i].ok =>
                /\ outcome = "raised"
                /\ result = None
                /\ error # None
                /\ Contains(error, calls[i].err)
                /\ Contains(error, IF IsGet THEN Direction(remote_filepath, local_filepath)
                                            ELSE Direction(local_filepath, remote_filepath))
                /\ CallsTo(TransferFns) = {i}

C2_Witness ==
    /\ Executed
    /\ IsPut
    /\ \E i \in CallsTo({"store_file"}) : calls[i].err = <<"Permission denied">>
    /\ outcome = "raised"

\* C3: with a non-empty ssh_conn_id, an execute() that finds an SFTPHook on the
\* task keeps it, builds none and uses it for every call; one that finds no
\* hook, or an object that is not an SFTPHook, builds exactly one hook from
\* ssh_conn_id and uses that one for every call.
C3_HookResolution ==
    Executed /\ Truthy(ssh_conn_id) =>
        IF IsSFTPHook(entry_hook)
        THEN /\ built = 0
             /\ sftp_hook.id = entry_hook.id
             /\ sftp_hook.source = entry_hook.source
             /\ \A i \in DOMAIN calls : calls[i].hook = entry_hook.id
        ELSE /\ built = 1
             /\ IsSFTPHook(sftp_hook)
             /\ sftp_hook.source = "ssh_conn_id"
             /\ sftp_hook.conn = ssh_conn_id
             /\ sftp_hook.id = hooks_created
             /\ sftp_hook.id # entry_hook.id
             /\ \A i \in DOMAIN calls : calls[i].hook = sftp_hook.id

C3_Witness ==
    /\ Executed
    /\ Truthy(ssh_conn_id)
    /\ entry_hook = OtherObject
    /\ built = 1
    /\ \E i \in CallsTo({"store_file"}) : calls[i].hook = sftp_hook.id /\ calls[i].ok

\* C4: a task built without sftp_hook, without ssh_hook and with no or an
\* empty ssh_conn_id fails in execute() with an error that says it cannot
\* operate without sftp_hook or ssh_conn_id; no host is set, no directory is
\* created and nothing is transferred.
C4_NoHookNoTransfer ==
    Executed /\ arg_sftp_hook = NoHook /\ ssh_hook = None /\ ~Truthy(ssh_conn_id) =>
        /\ outcome = "raised"
        /\ result = None
        /\ Contains(error, <<"Cannot operate without sftp_hook or ssh_conn_id.">>)
        /\ calls = <<>>
        /\ localDirs = {<<"/">>, <<>>}

C4_Witness ==
    /\ Executed
    /\ arg_sftp_hook = NoHook
    /\ ssh_hook = None
    /\ ssh_conn_id = <<>>
    /\ remote_host = <<"override.host">>
    /\ create_intermediate_dirs
    /\ outcome = "raised"

\* C5: with remote_host given, the hook's remote_host equals it at every
\* directory creation and every transfer call; with remote_host None,
\* execute() assigns no remote_host and the hook keeps the host it had (or,
\* when built by this execute(), the host of its connection).
C5_HostOverride ==
    Executed =>
        /\ (remote_host # None =>
               \A i \in CallsTo(DirFns \cup TransferFns) : calls[i].host = remote_host)
        /\ (remote_host = None =>
               /\ CallsTo({"set_remote_host"}) = {}
               /\ sftp_hook.remote_host =
                      IF built = 0 THEN entry_hook.remote_host
                                   ELSE SFTPHook(ssh_conn_id, None, 0).remote_host
               /\ \A i \in DOMAIN calls : calls[i].host = sftp_hook.remote_host)

C5_Witness ==
    /\ Executed
    /\ remote_host = <<"override.host">>
    /\ entry_hook = GivenHook
    /\ \E i \in CallsTo({"create_directory"}) :
          /\ calls[i].host = <<"override.host">>
          /\ \E j \in CallsTo({"store_file"}) : i < j /\ calls[j].host = <<"override.host">>

\* C6: an execute() that has an SFTPHook and whose directory creation did not
\* fail makes exactly one transfer call: retrieve_file(remote, local) for get
\* and never store_file; store_file(remote, local, confirm=self.confirm) for
\* put and never retrieve_file.
C6_ExactlyOneTransfer ==
    Executed /\ IsSFTPHook(sftp_hook) /\ (\A i \in CallsTo(DirFns) : calls[i].ok) =>
        /\ Cardinality(CallsTo(TransferFns)) = 1
        /\ \A i \in CallsTo(TransferFns) :
              /\ calls[i].args = <<remote_filepath, local_filepath>>
              /\ calls[i].fn = (IF IsGet THEN "retrieve_file" ELSE "store_file")
              /\ calls[i].confirm = (IF IsGet THEN "-" ELSE IF confirm THEN "True" ELSE "False")
              /\ i = Len(calls)

C6_Witness ==
    /\ Executed
    /\ IsPut
    /\ ~confirm
    /\ \E i \in CallsTo({"store_file"}) : calls[i].confirm = "False" /\ calls[i].ok
    /\ outcome = "returned"

\* C7: directories are created only when create_intermediate_dirs is set and
\* always before the transfer call: for get the local parent of local_filepath
\* with its missing ancestors (no error when it is there already) and nothing
\* remote; for put the remote parent of remote_filepath through the hook and
\* nothing local; and when the creation fails nothing is transferred.
C7_DirectoriesBeforeTransfer ==
    Executed =>
        /\ (~create_intermediate_dirs => CallsTo(DirFns) = {})
        /\ \A i \in CallsTo(DirFns) :
              /\ \A j \in CallsTo(TransferFns) : i < j
              /\ (~calls[i].ok => CallsTo(TransferFns) = {})
              /\ (IsGet => /\ calls[i].fn = "mkdir"
                           /\ calls[i].args = <<ParentOf(local_filepath)>>
                           /\ (calls[i].ok => /\ ParentOf(local_filepath) \in localDirs
                                              /\ ParentOf(ParentOf(local_filepath)) \in localDirs)
                           /\ (~calls[i].ok => ParentOf(local_filepath) \notin localDirs))
              /\ (IsPut => /\ calls[i].fn = "create_directory"
                           /\ calls[i].args = <<ParentOf(remote_filepath)>>)
        /\ (create_intermediate_dirs =>
               \A j \in CallsTo(TransferFns) : Cardinality(CallsTo(DirFns)) = 1)
        /\ (IsPut \/ ~create_intermediate_dirs => localDirs = {<<"/">>, <<>>})

C7_Witness ==
    /\ Executed
    /\ IsGet
    /\ create_intermediate_dirs
    /\ local_filepath = <<"/", "tmp", "/", "d", "/", "f.txt">>
    /\ Len(calls) >= 2
    /\ calls[Len(calls) - 1].fn = "mkdir"
    /\ calls[Len(calls) - 1].ok
    /\ calls[Len(calls)].fn = "retrieve_file"
    /\ <<"/", "tmp">> \in localDirs
    /\ <<"/", "tmp", "/", "d">> \in localDirs
    /\ outcome = "returned"

\* C8: an execute() that does not fail returns exactly self.local_filepath,
\* for get and for put; and it returns only when it had an SFTPHook and every
\* directory creation and transfer call it made succeeded.
C8_ReturnsLocalPath ==
    Executed =>
        /\ outcome \in {"returned", "raised"}
        /\ (outcome = "returned" =>
               /\ result = local_filepath
               /\ error = None
               /\ IsSFTPHook(sftp_hook)
               /\ \A i \in DOMAIN calls : calls[i].ok
               /\ Cardinality(CallsTo(TransferFns)) = 1)
        /\ (outcome = "raised" => result = None /\ error # None)

C8_Witness ==
    /\ Executed
    /\ IsPut
    /\ outcome = "returned"
    /\ result = <<"f.txt">>
    /\ remote_filepath = <<"/", "up", "/", "r.txt">>

\* C9: built with ssh_hook and no sftp_hook, a task whose ssh_hook is an
\* SSHHook holds after construction an SFTPHook that wraps it, and one
\* DeprecationWarning was emitted; a task whose ssh_hook is not an SSHHook
\* holds an SFTPHook built from ssh_conn_id, and ssh_hook is not wrapped.
C9_LegacyHookDerivation ==
    phase = "ready" /\ executions = 0 /\ ssh_hook # None =>
        /\ arg_sftp_hook = NoHook
        /\ IsSFTPHook(sftp_hook)
        /\ hooks_created = 1
        /\ sftp_hook.id = 1
        /\ IF ssh_hook = ValidSSHHook
           THEN /\ sftp_hook.source = "ssh_hook"
                /\ sftp_hook.wraps = ssh_hook
                /\ deprecation_warnings = 1
           ELSE /\ sftp_hook.source = "ssh_conn_id"
                /\ sftp_hook.conn = ssh_conn_id
                /\ sftp_hook.wraps = None

C9_Witness ==
    /\ phase = "ready"
    /\ executions = 0
    /\ ssh_hook = InvalidSSHHook
    /\ ssh_conn_id = <<"sftp_default">>
    /\ sftp_hook.source = "ssh_conn_id"

\* a task built with a non-empty ssh_conn_id and neither hook
OnlyConnId == arg_sftp_hook = NoHook /\ ssh_hook = None /\ Truthy(ssh_conn_id)

====
